---- MODULE Spec2Model ----
(***************************************************************************)
(* House-price prediction service: src/api.py (FastAPI back end).          *)
(*                                                                         *)
(* Prices are Python floats in the source.  Every factor the heuristic     *)
(* multiplies by is a whole number of hundredths, so a price is kept here  *)
(* as an exact decimal [w |-> whole dollars, f |-> fraction in 10^-8       *)
(* dollars]: three multipliers and the 0.88 / 1.12 band need 8 decimals.   *)
(* round(x, 2) is Python's round-half-even, yielding a number of cents.    *)
(* Where the exact value lies on half a cent the float of the source lies  *)
(* a hair to one side and may round to the other cent; no property below   *)
(* depends on that cent.  Float range is not modelled.                     *)
(***************************************************************************)
EXTENDS Integers, Sequences, FiniteSets, TLC

(***************************************************************************)
(* Bounds of the enumerated inputs.                                        *)
(***************************************************************************)
AreaSteps == 2
PoolSteps == 1

\* Python's None
None == [type |-> "NoneType"]

(***************************************************************************)
(* Decimal arithmetic standing for the float operations of the source.     *)
(***************************************************************************)
DecInt(n) == [w |-> n, f |-> 0]

\* price += n, n a whole number of dollars
DecAdd(p, n) == [w |-> p.w + n, f |-> p.f]

\* price *= m / 100, m a number of hundredths
DecMul(p, m) ==
    LET wm == p.w * m
        fh == p.f \div 10000
        fl == p.f % 10000
        F  == (wm % 100) * 1000000 + fh * m * 100 + (fl * m) \div 100
    IN  [w |-> (wm \div 100) + (F \div 100000000), f |-> F % 100000000]

\* round(price, 2) in cents, ties to even
round2(p) ==
    LET cents == p.w * 100 + (p.f \div 1000000)
        rem   == p.f % 1000000
    IN  IF rem > 500000 \/ (rem = 500000 /\ cents % 2 = 1)
        THEN cents + 1 ELSE cents

\* dict.get(key, default)
DictGet(d, k, default) == IF k \in DOMAIN d THEN d[k] ELSE default

(***************************************************************************)
(* class SimplePricePredictor                                              *)
(***************************************************************************)
BASE_PRICE == 80000

\* a table whose entries for 6 and 7 coincide
QUALITY_WEIGHTS_dip ==
    (1 :> 50) @@ (2 :> 60) @@ (3 :> 70) @@ (4 :> 80) @@ (5 :> 90) @@
    (6 :> 115) @@ (7 :> 115) @@ (8 :> 135) @@ (9 :> 155) @@ (10 :> 180)

\* multipliers in hundredths
QUALITY_WEIGHTS ==
    (1 :> 50) @@ (2 :> 60) @@ (3 :> 70) @@ (4 :> 80) @@ (5 :> 90) @@
    (6 :> 100) @@ (7 :> 115) @@ (8 :> 135) @@ (9 :> 155) @@ (10 :> 180)

NEIGHBORHOOD_MULTIPLIERS ==
    ("StoneBr" :> 140) @@ ("NridgHt" :> 135) @@ ("NoRidge" :> 130) @@
    ("Somerst" :> 115) @@ ("Timber" :> 110) @@ ("Veenker" :> 110) @@
    ("CollgCr" :> 105) @@ ("Crawfor" :> 105) @@ ("ClearCr" :> 105) @@
    ("Gilbert" :> 100) @@ ("NWAmes" :> 95) @@ ("SawyerW" :> 95) @@
    ("Mitchel" :> 90) @@ ("NAmes" :> 85) @@ ("NPkVill" :> 85) @@
    ("SWISU" :> 80) @@ ("Blueste" :> 80) @@ ("Sawyer" :> 80) @@
    ("OldTown" :> 75) @@ ("Edwards" :> 75) @@ ("BrkSide" :> 70) @@
    ("BrDale" :> 65) @@ ("IDOTRR" :> 65) @@ ("MeadowV" :> 60) @@
    ("Blmngtn" :> 105)

KITCHEN_QUAL_WEIGHTS ==
    ("Ex" :> 115) @@ ("Gd" :> 105) @@ ("TA" :> 100) @@ ("Fa" :> 90) @@
    ("Po" :> 80)

\* self.QUALITY_WEIGHTS.get(features.overall_quality, 1.0)
quality_weight(features) ==
    DictGet(QUALITY_WEIGHTS, features.overall_quality, 100)

\* the chain with the two upper tests in the other order
age_multiplier_misordered(features) ==
    LET age == 2024 - features.year_built
    IN  IF age < 5 THEN 110
        ELSE IF age < 15 THEN 105
        ELSE IF age > 30 THEN 92
        ELSE IF age > 50 THEN 85
        ELSE 100

\* the if / elif chain on age = 2024 - year_built
age_multiplier(features) ==
    LET age == 2024 - features.year_built
    IN  IF age < 5 THEN 110
        ELSE IF age < 15 THEN 105
        ELSE IF age > 50 THEN 85
        ELSE IF age > 30 THEN 92
        ELSE 100

\* a lookup that falls back to the entry of the field default, NAmes
neighborhood_multiplier_names(features) ==
    IF features.neighborhood \in DOMAIN NEIGHBORHOOD_MULTIPLIERS
    THEN NEIGHBORHOOD_MULTIPLIERS[features.neighborhood]
    ELSE NEIGHBORHOOD_MULTIPLIERS["NAmes"]

\* self.NEIGHBORHOOD_MULTIPLIERS.get(features.neighborhood, 1.0)
neighborhood_multiplier(features) ==
    DictGet(NEIGHBORHOOD_MULTIPLIERS, features.neighborhood, 100)

\* self.KITCHEN_QUAL_WEIGHTS.get(features.kitchen_qual, 1.0)
kitchen_multiplier(features) ==
    DictGet(KITCHEN_QUAL_WEIGHTS, features.kitchen_qual, 100)

\* the (price, low, high) tuple with the band on the wrong side
band_inverted(price) == <<price, DecMul(price, 112), DecMul(price, 88)>>

\* return price, price * 0.88, price * 1.12
band(price) == <<price, DecMul(price, 88), DecMul(price, 112)>>

\* predict with the fireplaces added along with the other flat amounts,
\* ahead of the multipliers
predict_fireplaces_first(features) ==
    LET p0 == DecMul(DecInt(BASE_PRICE), quality_weight(features))
        p1 == DecAdd(p0, features.gr_liv_area * 50)
        p2 == DecAdd(p1, features.total_bsmt_sf * 30)
        p3 == DecAdd(p2, features.garage_area * 25)
        p4 == DecAdd(p3, features.garage_cars * 5000)
        p5 == DecAdd(p4, features.full_bath * 8000)
        p6 == DecAdd(p5, features.half_bath * 4000)
        p6f == DecAdd(p6, features.fireplaces * 5000)
        p7 == IF age_multiplier(features) = 100 THEN p6f
              ELSE DecMul(p6f, age_multiplier(features))
        p8 == DecMul(p7, neighborhood_multiplier(features))
        p9 == DecMul(p8, kitchen_multiplier(features))
        p11 == DecAdd(p9, features.lot_area * 2)
    IN  band(p11)

\* SimplePricePredictor.predict
predict(features) ==
    LET p0 == DecMul(DecInt(BASE_PRICE), quality_weight(features))
        p1 == DecAdd(p0, features.gr_liv_area * 50)
        p2 == DecAdd(p1, features.total_bsmt_sf * 30)
        p3 == DecAdd(p2, features.garage_area * 25)
        p4 == DecAdd(p3, features.garage_cars * 5000)
        p5 == DecAdd(p4, features.full_bath * 8000)
        p6 == DecAdd(p5, features.half_bath * 4000)
        p7 == IF age_multiplier(features) = 100 THEN p6
              ELSE DecMul(p6, age_multiplier(features))
        p8 == DecMul(p7, neighborhood_multiplier(features))
        p9 == DecMul(p8, kitchen_multiplier(features))
        p10 == DecAdd(p9, features.fireplaces * 5000)
        p11 == DecAdd(p10, features.lot_area * 2)
    IN  band(p11)

(***************************************************************************)
(* class HouseFeatures: the request body and its validation.               *)
(***************************************************************************)
Example ==
    [overall_quality |-> 7, overall_condition |-> 5, year_built |-> 2005,
     year_remod |-> 2010, lot_area |-> 8500, gr_liv_area |-> 1800,
     total_bsmt_sf |-> 1000, first_flr_sf |-> 1000, second_flr_sf |-> 800,
     bedrooms |-> 3, full_bath |-> 2, half_bath |-> 1, kitchen_qual |-> "Gd",
     garage_cars |-> 2, garage_area |-> 500, fireplaces |-> 1,
     neighborhood |-> "CollgCr", pool_area |-> 0]

\* the Field(ge=..., le=...) constraints
Validates(body) ==
    /\ body.overall_quality >= 1 /\ body.overall_quality <= 10
    /\ body.overall_condition >= 1 /\ body.overall_condition <= 10
    /\ body.year_built >= 1800 /\ body.year_built <= 2025
    /\ body.year_remod >= 1800 /\ body.year_remod <= 2025
    /\ body.lot_area >= 0
    /\ body.gr_liv_area >= 0
    /\ body.total_bsmt_sf >= 0
    /\ body.first_flr_sf >= 0
    /\ body.second_flr_sf >= 0
    /\ body.bedrooms >= 0 /\ body.bedrooms <= 10
    /\ body.full_bath >= 0 /\ body.full_bath <= 5
    /\ body.half_bath >= 0 /\ body.half_bath <= 3
    /\ body.garage_cars >= 0 /\ body.garage_cars <= 5
    /\ body.garage_area >= 0
    /\ body.fireplaces >= 0 /\ body.fireplaces <= 4

FieldNames ==
    {"overall_quality", "overall_condition", "year_built", "year_remod",
     "lot_area", "gr_liv_area", "total_bsmt_sf", "first_flr_sf",
     "second_flr_sf", "bedrooms", "full_bath", "half_bath", "kitchen_qual",
     "garage_cars", "garage_area", "fireplaces", "neighborhood"}

\* the validated model keeps the declared fields; keys of the body that the
\* class does not declare (pool_area) are dropped
HouseFeatures(body) == [k \in FieldNames |-> body[k]]

(***************************************************************************)
(* The pickled artifacts under models/ and load_model.                     *)
(*                                                                         *)
(* A file is missing, corrupt (pickle.load raises) or holds an object.     *)
(* The objects are inputs of the program: a scaler is described by the     *)
(* number of columns it was fitted on and whether transform raises, a      *)
(* model by whether predict raises and by the price that                   *)
(* expm1(model.predict(scaler.transform(df))) comes to, in cents, as a     *)
(* function of the assembled row.                                          *)
(***************************************************************************)
Num(n) == [t |-> "num", v |-> n]
\* np.log1p(x), kept symbolic
Log1p(x) == [t |-> "log1p", v |-> x]
\* a multiple of 0.5
Halves(h) == [t |-> "half", v |-> h]

AssignedCols ==
    {"OverallQual", "OverallCond", "YearBuilt", "YearRemodAdd", "LotArea",
     "GrLivArea", "TotalBsmtSF", "1stFlrSF", "2ndFlrSF", "BedroomAbvGr",
     "FullBath", "HalfBath", "GarageCars", "GarageArea", "Fireplaces",
     "TotalSF", "HouseAge", "RemodelAge", "TotalBath", "HasGarage",
     "HasBsmt", "HasFireplace", "KitchenQual"}

FullCols ==
    AssignedCols \cup
    {"Neighborhood_CollgCr", "Neighborhood_Gilbert", "GarageType_Attchd"}

\* a feature list written by a notebook that did not engineer TotalSF
ShortCols == FullCols \ {"TotalSF"}

Missing == [state |-> "missing"]
Corrupt == [state |-> "corrupt"]
Holds(obj) == [state |-> "ok", obj |-> obj]

GoodModel ==
    [kind |-> "model", raises |-> FALSE, intercept |-> 12000000,
     coef_qual |-> 1500037, coef_nbhd |-> 1000000]
RaisingModel == [GoodModel EXCEPT !.raises = TRUE]
GoodScaler ==
    [kind |-> "scaler", raises |-> FALSE,
     n_features_in |-> Cardinality(FullCols)]
RaisingScaler == [GoodScaler EXCEPT !.raises = TRUE]
FeatureList(cols) == [kind |-> "feature_names", cols |-> cols]

ModelFiles   == {Missing, Corrupt, Holds(GoodModel), Holds(RaisingModel)}
ScalerFiles  == {Missing, Corrupt, Holds(GoodScaler), Holds(RaisingScaler)}
FeatureFiles == {Missing, Corrupt, Holds(FeatureList(FullCols)),
                 Holds(FeatureList(ShortCols))}

\* load_model(): the globals it leaves and the value it returns.  The three
\* pickle.load calls run in order inside one try; a corrupt file raises and
\* the globals assigned before it keep their objects.
load_model(fs) ==
    IF fs.model.state # "missing" /\ fs.scaler.state # "missing"
       /\ fs.features.state # "missing"
    THEN IF fs.model.state = "corrupt"
         THEN [model |-> None, scaler |-> None, feature_names |-> None,
               result |-> FALSE]
         ELSE IF fs.scaler.state = "corrupt"
         THEN [model |-> fs.model.obj, scaler |-> None,
               feature_names |-> None, result |-> FALSE]
         ELSE IF fs.features.state = "corrupt"
         THEN [model |-> fs.model.obj, scaler |-> fs.scaler.obj,
               feature_names |-> None, result |-> FALSE]
         ELSE [model |-> fs.model.obj, scaler |-> fs.scaler.obj,
               feature_names |-> fs.features.obj, result |-> TRUE]
    ELSE [model |-> None, scaler |-> None, feature_names |-> None,
          result |-> FALSE]

(***************************************************************************)
(* State.                                                                  *)
(***************************************************************************)
VARIABLES
    pc,             \* "start" while the module is being imported, then "serving"
    files,          \* models/*.pkl on disk
    model,          \* the module globals set by load_model
    scaler,
    feature_names,
    model_loaded,
    request,        \* body of the POST /predict being answered, or None
    response,       \* what the caller receives for it, or None
    seen,           \* observer: first tracked body answered, with its answer
    page            \* front end: what the last click of the button left, or None

globals == <<model, scaler, feature_names, model_loaded>>
vars == <<pc, files, model, scaler, feature_names, model_loaded,
          request, response, seen, page>>

(***************************************************************************)
(* predict_price: the trained branch.                                      *)
(***************************************************************************)
kitchen_map == ("Ex" :> 4) @@ ("Gd" :> 3) @@ ("TA" :> 2) @@ ("Fa" :> 1) @@
               ("Po" :> 0)

\* the column assignments of the try block, in source order
assigned_values(features) ==
    ("OverallQual" :> Num(features.overall_quality)) @@
    ("OverallCond" :> Num(features.overall_condition)) @@
    ("YearBuilt" :> Num(features.year_built)) @@
    ("YearRemodAdd" :> Num(features.year_remod)) @@
    ("LotArea" :> Log1p(features.lot_area)) @@
    ("GrLivArea" :> Log1p(features.gr_liv_area)) @@
    ("TotalBsmtSF" :> Log1p(features.total_bsmt_sf)) @@
    ("1stFlrSF" :> Log1p(features.first_flr_sf)) @@
    ("2ndFlrSF" :> Log1p(features.second_flr_sf)) @@
    ("BedroomAbvGr" :> Num(features.bedrooms)) @@
    ("FullBath" :> Num(features.full_bath)) @@
    ("HalfBath" :> Num(features.half_bath)) @@
    ("GarageCars" :> Num(features.garage_cars)) @@
    ("GarageArea" :> Log1p(features.garage_area)) @@
    ("Fireplaces" :> Num(features.fireplaces)) @@
    ("TotalSF" :> Log1p(features.total_bsmt_sf + features.first_flr_sf
                        + features.second_flr_sf)) @@
    ("HouseAge" :> Num(2010 - features.year_built)) @@
    ("RemodelAge" :> Num(2010 - features.year_remod)) @@
    ("TotalBath" :> Halves(2 * features.full_bath + features.half_bath)) @@
    ("HasGarage" :> Num(IF features.garage_area > 0 THEN 1 ELSE 0)) @@
    ("HasBsmt" :> Num(IF features.total_bsmt_sf > 0 THEN 1 ELSE 0)) @@
    ("HasFireplace" :> Num(IF features.fireplaces > 0 THEN 1 ELSE 0)) @@
    ("KitchenQual" :> Num(DictGet(kitchen_map, features.kitchen_qual, 2)))

\* an assembly that sets the neighborhood column without looking it up in
\* the feature list
input_df_unguarded(features, names) ==
    LET neighborhood_col == "Neighborhood_" \o features.neighborhood
        assigned == assigned_values(features)
    IN  [c \in names.cols \cup DOMAIN assigned \cup {neighborhood_col} |->
            IF c \in DOMAIN assigned THEN assigned[c]
            ELSE IF c = neighborhood_col THEN Num(1)
            ELSE Num(0)]

\* input_df after the assignments: a frame of zeros over the feature list;
\* assigning a column the list lacks appends it
input_df(features, names) ==
    LET neighborhood_col == "Neighborhood_" \o features.neighborhood
        assigned == assigned_values(features)
    IN  [c \in names.cols \cup DOMAIN assigned |->
            IF c \in DOMAIN assigned THEN assigned[c]
            ELSE IF c = neighborhood_col THEN Num(1)
            ELSE Num(0)]

\* scaler.transform(input_df) raises on a frame of the wrong width
transform_raises(sc, df) ==
    sc.raises \/ Cardinality(DOMAIN df) # sc.n_features_in

\* np.expm1(model.predict(input_scaled)[0]) as a decimal number of dollars
model_price(m, df) ==
    LET hot == {c \in DOMAIN df :
                   /\ c \in {"Neighborhood_" \o n :
                               n \in DOMAIN NEIGHBORHOOD_MULTIPLIERS}
                   /\ df[c] = Num(1)}
        cents == m.intercept + m.coef_qual * df["OverallQual"].v
                 + m.coef_nbhd * Cardinality(hot)
    IN  [w |-> cents \div 100, f |-> (cents % 100) * 1000000]

\* the labels with the heuristic's fixed 12% for every quality
trained_confidence_fixed(features) ==
    IF features.overall_quality >= 7 THEN [confidence |-> "High", range_pct |-> 12]
    ELSE IF features.overall_quality >= 4
         THEN [confidence |-> "Medium", range_pct |-> 12]
         ELSE [confidence |-> "Low", range_pct |-> 12]

\* "Confidence based on quality": the label and range_pct in hundredths
trained_confidence(features) ==
    IF features.overall_quality >= 7 THEN [confidence |-> "High", range_pct |-> 10]
    ELSE IF features.overall_quality >= 4
         THEN [confidence |-> "Medium", range_pct |-> 12]
         ELSE [confidence |-> "Low", range_pct |-> 15]

\* the body of the try block: raised, or the response it returns
trained(features) ==
    LET df == input_df(features, feature_names)
    IN  IF transform_raises(scaler, df) \/ model.raises
        THEN [raised |-> TRUE]
        ELSE LET predicted_price == model_price(model, df)
                 c == trained_confidence(features)
             IN  [raised |-> FALSE,
                  response |->
                    [status |-> 200,
                     predicted_price |-> round2(predicted_price),
                     price_range_low |->
                         round2(DecMul(predicted_price, 100 - c.range_pct)),
                     price_range_high |->
                         round2(DecMul(predicted_price, 100 + c.range_pct)),
                     confidence |-> c.confidence,
                     model_used |-> "Trained Linear Regression"]]

(***************************************************************************)
(* predict_price: the fallback branches and the handler.                   *)
(***************************************************************************)
\* the else branch: no artifacts
fallback_branch(features) ==
    LET r == predict(features)
    IN  [status |-> 200,
         predicted_price |-> round2(r[1]),
         price_range_low |-> round2(r[2]),
         price_range_high |-> round2(r[3]),
         confidence |-> IF features.overall_quality >= 7 THEN "High"
                        ELSE IF features.overall_quality >= 4 THEN "Medium"
                        ELSE "Low",
         model_used |-> "Fallback (Run notebook to train model)"]

\* an except branch that lets the error through as a server error
except_branch_reraise(features) ==
    [status |-> 500, detail |-> "Internal Server Error"]

\* the except branch
except_branch(features) ==
    LET r == predict(features)
    IN  [status |-> 200,
         predicted_price |-> round2(r[1]),
         price_range_low |-> round2(r[2]),
         price_range_high |-> round2(r[3]),
         confidence |-> "Medium",
         model_used |-> "Fallback (Simple)"]

artifacts_loaded == model # None /\ scaler # None /\ feature_names # None

\* what predict_price returns
predict_price(features) ==
    IF artifacts_loaded
    THEN IF trained(features).raised
         THEN except_branch(features)
         ELSE trained(features).response
    ELSE fallback_branch(features)

\* a handler that drops a model whose inference raised
predict_price_globals_drop(features) ==
    IF artifacts_loaded /\ trained(features).raised
    THEN <<None, scaler, feature_names, FALSE>>
    ELSE <<model, scaler, feature_names, model_loaded>>

\* a handler that retries load_model while nothing is loaded
predict_price_globals_retry(features) ==
    IF model_loaded
    THEN <<model, scaler, feature_names, model_loaded>>
    ELSE LET l == load_model(files)
         IN  <<l.model, l.scaler, l.feature_names, l.result>>

\* the module globals when predict_price returns: it assigns none of them
predict_price_globals(features) ==
    <<model, scaler, feature_names, model_loaded>>

(***************************************************************************)
(* The request bodies tried.                                               *)
(***************************************************************************)
Minimal ==
    [overall_quality |-> 1, overall_condition |-> 1, year_built |-> 1800,
     year_remod |-> 1800, lot_area |-> 0, gr_liv_area |-> 0,
     total_bsmt_sf |-> 0, first_flr_sf |-> 0, second_flr_sf |-> 0,
     bedrooms |-> 0, full_bath |-> 0, half_bath |-> 0, kitchen_qual |-> "Po",
     garage_cars |-> 0, garage_area |-> 0, fireplaces |-> 0,
     neighborhood |-> "MeadowV", pool_area |-> 0]

\* one year per branch of the age chain
YearsBuilt == {1800, 1990, 2005, 2015, 2025}
Neighborhoods == {"CollgCr", "Gilbert", "MeadowV", "Atlantis"}
Kitchens == {"Gd", "TA", "Xx"}

MultiplierBodies ==
    {[Example EXCEPT !.overall_quality = q, !.year_built = y,
                     !.neighborhood = n, !.kitchen_qual = k] :
        q \in 1..10, y \in YearsBuilt, n \in Neighborhoods, k \in Kitchens}

AdditiveBodies ==
    {[Example EXCEPT !.overall_quality = q, !.bedrooms = b,
                     !.fireplaces = fp, !.year_remod = yr,
                     !.pool_area = 50 * pa, !.gr_liv_area = 900 * k] :
        q \in {3, 7}, b \in {2, 3}, fp \in {0, 1}, yr \in {2010, 2022},
        pa \in 0..PoolSteps, k \in 0..AreaSteps}

\* the years on either side of every test of the age chain
BoundaryYears == {1800, 1973, 1974, 1993, 1994, 2009, 2010, 2019, 2020, 2025}

AgeBodies ==
    {[Example EXCEPT !.overall_quality = q, !.year_built = y] :
        q \in {3, 7}, y \in BoundaryYears}

MinimalBodies == {[Minimal EXCEPT !.overall_quality = q] : q \in 1..10}

InvalidBodies ==
    {[Example EXCEPT !.overall_quality = 0],
     [Example EXCEPT !.overall_quality = 11],
     [Example EXCEPT !.year_built = 2026],
     [Example EXCEPT !.bedrooms = 11],
     [Example EXCEPT !.lot_area = -1]}

Bodies == MultiplierBodies \cup AdditiveBodies \cup AgeBodies
          \cup MinimalBodies \cup InvalidBodies

\* the bodies whose first answer the observer keeps
Tracked == {Example, [Example EXCEPT !.overall_quality = 3]}

\* the observer keeps the first tracked body answered and its answer, and
\* notes when another body (phase 1) and then the same body again (phase 2)
\* has been answered since
Observe(body, resp) ==
    IF seen = None
    THEN IF body \in Tracked
         THEN [body |-> body, response |-> resp, phase |-> 0]
         ELSE None
    ELSE IF body = seen.body
         THEN [seen EXCEPT !.phase = IF @ = 1 THEN 2 ELSE @]
         ELSE [seen EXCEPT !.phase = IF @ = 0 THEN 1 ELSE @]

(***************************************************************************)
(* The state machine.                                                      *)
(***************************************************************************)
Init ==
    /\ pc = "start"
    /\ files \in [model : ModelFiles, scaler : ScalerFiles,
                  features : FeatureFiles]
    /\ model = None
    /\ scaler = None
    /\ feature_names = None
    /\ model_loaded = FALSE
    /\ request = None
    /\ response = None
    /\ seen = None
    /\ page = None

\* model_loaded = load_model(), run once while the module is imported
LoadModel ==
    /\ pc = "start"
    /\ LET l == load_model(files)
       IN  /\ model' = l.model
           /\ scaler' = l.scaler
           /\ feature_names' = l.feature_names
           /\ model_loaded' = l.result
    /\ pc' = "serving"
    /\ UNCHANGED <<files, request, response, seen, page>>

\* POST /predict: validation, then the handler, which has no await and so
\* runs to its return before any other request is looked at
PostPredict ==
    /\ pc = "serving"
    /\ response = None
    /\ \E body \in Bodies :
          /\ request' = body
          /\ IF Validates(body)
             THEN LET g == predict_price_globals(HouseFeatures(body))
                  IN  /\ response' = predict_price(HouseFeatures(body))
                      /\ model' = g[1]
                      /\ scaler' = g[2]
                      /\ feature_names' = g[3]
                      /\ model_loaded' = g[4]
             ELSE /\ response' = [status |-> 422, detail |-> "validation"]
                  /\ UNCHANGED globals
          /\ seen' = Observe(body, response')
    /\ UNCHANGED <<pc, files, page>>

\* the caller receives the response
ReturnResponse ==
    /\ response # None
    /\ request' = None
    /\ response' = None
    /\ UNCHANGED <<pc, files, model, scaler, feature_names, model_loaded, seen,
                   page>>

\* the notebook is run while the server is up and writes the three files
RunNotebook ==
    /\ pc = "serving"
    /\ files' = [model |-> Holds(GoodModel), scaler |-> Holds(GoodScaler),
                 features |-> Holds(FeatureList(FullCols))]
    /\ files' # files
    /\ UNCHANGED <<pc, model, scaler, feature_names, model_loaded,
                   request, response, seen, page>>

Next == LoadModel \/ PostPredict \/ ReturnResponse \/ RunNotebook

Spec == Init /\ [][Next]_vars

(***************************************************************************)
(* The front end, src/app.py.                                              *)
(*                                                                         *)
(* A click of the button runs the script's prediction block from its       *)
(* first line to the rendering of the result.  The two HTTP calls either   *)
(* reach the server or fail; the features come from the widgets.           *)
(***************************************************************************)
\* the tables local_predict carries, copies of those of the API
local_BASE_PRICE == 80000

local_QUALITY_WEIGHTS ==
    (1 :> 50) @@ (2 :> 60) @@ (3 :> 70) @@ (4 :> 80) @@ (5 :> 90) @@
    (6 :> 100) @@ (7 :> 115) @@ (8 :> 135) @@ (9 :> 155) @@ (10 :> 180)

local_NEIGHBORHOOD_MULTIPLIERS ==
    ("StoneBr" :> 140) @@ ("NridgHt" :> 135) @@ ("NoRidge" :> 130) @@
    ("Somerst" :> 115) @@ ("Timber" :> 110) @@ ("Veenker" :> 110) @@
    ("CollgCr" :> 105) @@ ("Crawfor" :> 105) @@ ("ClearCr" :> 105) @@
    ("Gilbert" :> 100) @@ ("NWAmes" :> 95) @@ ("SawyerW" :> 95) @@
    ("Mitchel" :> 90) @@ ("NAmes" :> 85) @@ ("NPkVill" :> 85) @@
    ("SWISU" :> 80) @@ ("Blueste" :> 80) @@ ("Sawyer" :> 80) @@
    ("OldTown" :> 75) @@ ("Edwards" :> 75) @@ ("BrkSide" :> 70) @@
    ("BrDale" :> 65) @@ ("IDOTRR" :> 65) @@ ("MeadowV" :> 60) @@
    ("Blmngtn" :> 105)

local_KITCHEN_QUAL_WEIGHTS ==
    ("Ex" :> 115) @@ ("Gd" :> 105) @@ ("TA" :> 100) @@ ("Fa" :> 90) @@
    ("Po" :> 80)

\* a copy of the age chain that counts from the year after
local_age_multiplier_2025(features) ==
    LET age == 2025 - DictGet(features, "year_built", 2000)
    IN  IF age < 5 THEN 110
        ELSE IF age < 15 THEN 105
        ELSE IF age > 50 THEN 85
        ELSE IF age > 30 THEN 92
        ELSE 100

\* local_predict: the if / elif chain on age
local_age_multiplier(features) ==
    LET age == 2024 - DictGet(features, "year_built", 2000)
    IN  IF age < 5 THEN 110
        ELSE IF age < 15 THEN 105
        ELSE IF age > 50 THEN 85
        ELSE IF age > 30 THEN 92
        ELSE 100

\* local_predict.  Of features_summary the two formatted strings
\* living_area and bathrooms, which are only displayed, are left out.
local_predict(features) ==
    LET quality == DictGet(features, "overall_quality", 5)
        p0 == DecMul(DecInt(local_BASE_PRICE),
                     DictGet(local_QUALITY_WEIGHTS, quality, 100))
        p1 == DecAdd(p0, DictGet(features, "gr_liv_area", 1500) * 50)
        p2 == DecAdd(p1, DictGet(features, "total_bsmt_sf", 0) * 30)
        p3 == DecAdd(p2, DictGet(features, "garage_area", 0) * 25)
        p4 == DecAdd(p3, DictGet(features, "garage_cars", 0) * 5000)
        p5 == DecAdd(p4, DictGet(features, "full_bath", 1) * 8000)
        p6 == DecAdd(p5, DictGet(features, "half_bath", 0) * 4000)
        p7 == IF local_age_multiplier(features) = 100 THEN p6
              ELSE DecMul(p6, local_age_multiplier(features))
        neighborhood == DictGet(features, "neighborhood", "NAmes")
        p8 == DecMul(p7, DictGet(local_NEIGHBORHOOD_MULTIPLIERS,
                                 neighborhood, 100))
        kitchen == DictGet(features, "kitchen_qual", "TA")
        p9 == DecMul(p8, DictGet(local_KITCHEN_QUAL_WEIGHTS, kitchen, 100))
        p10 == DecAdd(p9, DictGet(features, "fireplaces", 0) * 5000)
        price == DecAdd(p10, DictGet(features, "lot_area", 8000) * 2)
    IN  [predicted_price |-> round2(price),
         price_range_low |-> round2(DecMul(price, 88)),
         price_range_high |-> round2(DecMul(price, 112)),
         confidence |-> IF quality >= 7 THEN "High"
                        ELSE IF quality >= 4 THEN "Medium" ELSE "Low",
         features_summary |->
            [quality_rating |-> ToString(quality) \o "/10",
             bedrooms |-> DictGet(features, "bedrooms", 3),
             neighborhood |-> neighborhood]]

\* check_api_connection: True when GET /health comes back with status 200
check_api_connection(reachable) == reachable /\ pc = "serving"

\* how the POST /predict of one click can end
ApiOutcomes == {"answered", "http_error", "connection_error", "exception"}

\* what the server sends back to a POST /predict that reaches it
api_response(features) ==
    IF Validates(features) THEN predict_price(HouseFeatures(features))
    ELSE [status |-> 422, detail |-> "validation"]

\* predict_price of app.py: the JSON of a 200 response, None otherwise
app_predict_price(features, outcome) ==
    IF outcome = "answered" /\ api_response(features).status = 200
    THEN api_response(features)
    ELSE None

\* a prediction block that computes locally when the API gave nothing
prediction_block_second_try(api_online, features, outcome) ==
    IF api_online
    THEN IF app_predict_price(features, outcome) # None
         THEN [result |-> app_predict_price(features, outcome),
               api_calls |-> 1, local_calls |-> 0]
         ELSE [result |-> local_predict(features),
               api_calls |-> 1, local_calls |-> 1]
    ELSE [result |-> local_predict(features),
          api_calls |-> 0, local_calls |-> 1]

\* "Try API first, fallback to local prediction": the result and the calls
\* made for it
prediction_block(api_online, features, outcome) ==
    IF api_online
    THEN [result |-> app_predict_price(features, outcome),
          api_calls |-> 1, local_calls |-> 0]
    ELSE [result |-> local_predict(features),
          api_calls |-> 0, local_calls |-> 1]

\* the ranges of the widgets
WidgetRange(f) ==
    /\ f.overall_quality \in 1..10 /\ f.overall_condition \in 1..10
    /\ f.kitchen_qual \in {"Ex", "Gd", "TA", "Fa", "Po"}
    /\ f.neighborhood \in
         {"NAmes", "CollgCr", "OldTown", "Edwards", "Somerst", "NridgHt",
          "Gilbert", "Sawyer", "NWAmes", "SawyerW", "Mitchel", "BrkSide",
          "Crawfor", "IDOTRR", "Timber", "NoRidge", "StoneBr", "SWISU",
          "ClearCr", "MeadowV", "Blmngtn", "BrDale", "Veenker", "NPkVill",
          "Blueste"}
    /\ f.gr_liv_area \in 500..10000 /\ f.total_bsmt_sf \in 0..6000
    /\ f.lot_area \in 1000..100000
    /\ f.first_flr_sf \in 300..6000 /\ f.second_flr_sf \in 0..4000
    /\ f.bedrooms \in 0..10 /\ f.full_bath \in 0..5 /\ f.half_bath \in 0..3
    /\ f.fireplaces \in 0..4
    /\ f.garage_cars \in 0..5 /\ f.garage_area \in 0..2000
    /\ f.year_built \in 1800..2024 /\ f.year_remod \in 1800..2024
    /\ f.pool_area \in 0..1000

\* the feature dicts a click can carry; its keys garage_type, bldg_type and
\* house_style, which neither the API nor local_predict reads, are left out
WidgetBodies == {f \in Bodies : WidgetRange(f)}

\* predict_clicked: the features are collected, the health check and the
\* prediction block run, and the card is rendered when there is a result
ClickPredict ==
    /\ page = None
    /\ \E features \in WidgetBodies, reachable \in BOOLEAN,
          outcome \in ApiOutcomes :
          LET api_online == check_api_connection(reachable)
              b == prediction_block(api_online, features, outcome)
          IN  /\ api_online \/ outcome = "answered"
              /\ page' = [features |-> features,
                          api_online |-> api_online,
                          outcome |-> IF api_online THEN outcome ELSE "none",
                          result |-> b.result,
                          api_calls |-> b.api_calls,
                          local_calls |-> b.local_calls,
                          shown |-> b.result # None]
    /\ UNCHANGED <<pc, files, model, scaler, feature_names, model_loaded,
                   request, response, seen>>

\* the next run of the script starts from an empty result area
Rerun ==
    /\ page # None
    /\ page' = None
    /\ UNCHANGED <<pc, files, model, scaler, feature_names, model_loaded,
                   request, response, seen>>

FrontNext == LoadModel \/ ClickPredict \/ Rerun

FrontSpec == Init /\ [][FrontNext]_vars

(***************************************************************************)
(* Properties.                                                             *)
(***************************************************************************)
answered == response # None /\ response.status = 200
heuristic_answer == answered /\ response.model_used # "Trained Linear Regression"
features_in == HouseFeatures(request)
Abs(x) == IF x < 0 THEN -x ELSE x

\* C1: for the worked example record, with no artifacts loaded, POST /predict
\* returns predicted_price 305893.75, price_range_low 269186.5 and
\* price_range_high 342601.0, each within 0.01.
C1_WorkedExample ==
    (response # None /\ request = Example /\ ~artifacts_loaded) =>
        /\ response.status = 200
        /\ Abs(response.predicted_price - 30589375) <= 1
        /\ Abs(response.price_range_low - 26918650) <= 1
        /\ Abs(response.price_range_high - 34260100) <= 1

C3_ConfidenceByQualityOnly ==
    answered =>
        response.confidence =
            (IF request.overall_quality \in 7..10 THEN "High"
             ELSE IF request.overall_quality \in 4..6 THEN "Medium"
             ELSE "Low")

\* C4: when the artifacts are loaded but the trained path raises, the
\* response carries the same predicted_price, price_range_low,
\* price_range_high and confidence as the heuristic estimator applied
\* directly to the same record, and no error reaches the caller.
C4_ExceptEqualsHeuristic ==
    (response # None /\ Validates(request) /\ artifacts_loaded
     /\ trained(features_in).raised) =>
        /\ response.status = 200
        /\ response.predicted_price = fallback_branch(features_in).predicted_price
        /\ response.price_range_low = fallback_branch(features_in).price_range_low
        /\ response.price_range_high = fallback_branch(features_in).price_range_high
        /\ response.confidence = fallback_branch(features_in).confidence

C6_LoadOnceThenFrozen ==
    /\ [][pc = "serving" =>
            /\ pc' = "serving"
            /\ model' = model
            /\ scaler' = scaler
            /\ feature_names' = feature_names
            /\ model_loaded' = model_loaded]_vars
    /\ []((pc = "serving" /\ ~model_loaded /\ answered) =>
            response.model_used = "Fallback (Run notebook to train model)")

\* loading stopped part-way (the model object was kept), the three files
\* have since been written, and a request is still answered by the heuristic
C6_Witness ==
    /\ pc = "serving"
    /\ ~model_loaded
    /\ model # None
    /\ files.model.state = "ok" /\ files.scaler.state = "ok"
    /\ files.features.state = "ok"
    /\ answered
    /\ response.model_used = "Fallback (Run notebook to train model)"

\* C7: a record answered twice, with other requests answered in between,
\* gets the same response both times.
C7_Idempotent ==
    (seen # None /\ response # None /\ request = seen.body) =>
        response = seen.response

\* the tracked record answered, another record answered, the tracked record
\* answered again
C7_Witness ==
    /\ seen # None
    /\ seen.phase = 2
    /\ response # None
    /\ request = seen.body

C9_UnknownKeysAsOne ==
    (response # None /\ Validates(request)) =>
        /\ (request.neighborhood \notin DOMAIN NEIGHBORHOOD_MULTIPLIERS
            \/ request.kitchen_qual \notin DOMAIN KITCHEN_QUAL_WEIGHTS)
           => response.status = 200
        /\ (heuristic_answer
            /\ request.neighborhood \notin DOMAIN NEIGHBORHOOD_MULTIPLIERS) =>
              LET r == predict([features_in EXCEPT !.neighborhood = "Gilbert"])
              IN  /\ response.predicted_price = round2(r[1])
                  /\ response.price_range_low = round2(r[2])
                  /\ response.price_range_high = round2(r[3])
        /\ (heuristic_answer
            /\ request.kitchen_qual \notin DOMAIN KITCHEN_QUAL_WEIGHTS) =>
              LET r == predict([features_in EXCEPT !.kitchen_qual = "TA"])
              IN  /\ response.predicted_price = round2(r[1])
                  /\ response.price_range_low = round2(r[2])
                  /\ response.price_range_high = round2(r[3])

\* a record whose neighborhood and kitchen_qual are both unknown, priced by
\* the heuristic
C9_Witness ==
    /\ heuristic_answer
    /\ request.neighborhood = "Atlantis"
    /\ request.kitchen_qual = "Xx"

\* C10: the heuristic adds (bedrooms - 2) * 3000 when bedrooms >= 3 and
\* nothing otherwise, so a record with 3 bedrooms and the same record with
\* 2 bedrooms get different predicted_price.
C10_BedroomAdjustment ==
    (heuristic_answer /\ request.bedrooms = 3) =>
        response.predicted_price #
            round2(predict([features_in EXCEPT !.bedrooms = 2])[1])

\* the bands of the age factor as listed, in hundredths; 0 where none or
\* more than one applies
AgeBands(age) ==
    LET hit == {b \in {<<1, 110>>, <<2, 105>>, <<3, 85>>, <<4, 92>>, <<5, 100>>} :
                   \/ b[1] = 1 /\ age < 5
                   \/ b[1] = 2 /\ 5 <= age /\ age < 15
                   \/ b[1] = 3 /\ age > 50
                   \/ b[1] = 4 /\ 30 < age /\ age <= 50
                   \/ b[1] = 5 /\ 15 <= age /\ age <= 30}
    IN  IF Cardinality(hit) = 1 THEN (CHOOSE b \in hit : TRUE)[2] ELSE 0

\* C11: the running price is multiplied by exactly one age factor, chosen
\* from age = 2024 - year_built: below 5 (negative included) 1.10, 5..14
\* 1.05, above 50 0.85, 31..50 0.92, 15..30 no change.  Checked against the
\* price of the same record built in 2005 (age 19, no change): what lies
\* before fireplaces and lot_area are added is that price times the factor.
C11_AgeBands ==
    heuristic_answer =>
        LET after == features_in.fireplaces * 5000 + features_in.lot_area * 2
            ref == predict([features_in EXCEPT !.year_built = 2005])[1]
            factor == AgeBands(2024 - request.year_built)
        IN  /\ factor # 0
            /\ response.predicted_price =
                   round2(DecAdd(DecMul(DecAdd(ref, 0 - after), factor), after))

\* a house built next year, of negative age, priced by the heuristic
C11_Witness ==
    /\ heuristic_answer
    /\ request.year_built = 2025
    /\ request.overall_quality = 3

\* C12: the heuristic multiplies the running price by 1.05 when
\* 2024 - year_remod < 5, so a record remodelled in 2022 and the same record
\* remodelled in 2010 get different predicted_price.
C12_RemodelBonus ==
    (heuristic_answer /\ request.year_remod = 2022) =>
        response.predicted_price #
            round2(predict([features_in EXCEPT !.year_remod = 2010])[1])

\* C13: the heuristic adds 15000 + pool_area * 20 when pool_area > 0, so a
\* pool_area supplied in the request changes predicted_price.
C13_PoolAdjustment ==
    (heuristic_answer /\ request.pool_area > 0) =>
        response.predicted_price #
            round2(predict(HouseFeatures([request EXCEPT !.pool_area = 0]))[1])

\* a decimal amount of dollars from one flat amount scaled by the age,
\* neighborhood and kitchen factors of a record
Scaled(amount, features) ==
    DecMul(DecMul(DecMul(DecInt(amount), age_multiplier(features)),
                  neighborhood_multiplier(features)),
           kitchen_multiplier(features))

DecPlus(a, b) ==
    [w |-> a.w + b.w + ((a.f + b.f) \div 100000000),
     f |-> (a.f + b.f) % 100000000]

\* C14 as claimed: the flat per-unit amounts of step 4, fireplaces * 5000
\* included, are added before the multipliers and scaled by them; only
\* later amounts (lot_area * 2) are added after.
C14_FireplacesScaled ==
    heuristic_answer =>
        response.predicted_price =
            round2(DecAdd(DecPlus(
                predict([features_in EXCEPT !.garage_cars = 0, !.full_bath = 0,
                                            !.half_bath = 0, !.fireplaces = 0,
                                            !.lot_area = 0])[1],
                Scaled(features_in.garage_cars * 5000
                       + features_in.full_bath * 8000
                       + features_in.half_bath * 4000
                       + features_in.fireplaces * 5000, features_in)),
                features_in.lot_area * 2))

\* C14 as amended: garage_cars * 5000, full_bath * 8000 and half_bath * 4000
\* are added before the age, neighborhood and kitchen multipliers and are
\* scaled by them; fireplaces * 5000 is added after the multipliers,
\* together with lot_area * 2, and is not scaled.
C14_FlatStepsOrder ==
    heuristic_answer =>
        response.predicted_price =
            round2(DecAdd(DecPlus(
                predict([features_in EXCEPT !.garage_cars = 0, !.full_bath = 0,
                                            !.half_bath = 0, !.fireplaces = 0,
                                            !.lot_area = 0])[1],
                Scaled(features_in.garage_cars * 5000
                       + features_in.full_bath * 8000
                       + features_in.half_bath * 4000, features_in)),
                features_in.fireplaces * 5000 + features_in.lot_area * 2))

\* a record with a fireplace, two garage places and three factors other
\* than 1.0, priced by the heuristic
C14_Witness ==
    /\ heuristic_answer
    /\ request.fireplaces = 1
    /\ request.garage_cars = 2
    /\ request.year_built = 2015
    /\ request.neighborhood = "CollgCr"
    /\ request.kitchen_qual = "Gd"

trained_answer == answered /\ response.model_used = "Trained Linear Regression"

\* C15: when the trained path succeeds with model price p, the band is
\* p * (1 - r) .. p * (1 + r) with r = 0.10 for overall_quality >= 7, 0.12
\* for 4..6 and 0.15 below 4, while every heuristic answer has the fixed
\* band 0.88 .. 1.12 around its price.
C15_TrainedBand ==
    /\ trained_answer =>
          LET p == model_price(model, input_df(features_in, feature_names))
              r == IF request.overall_quality >= 7 THEN 10
                   ELSE IF request.overall_quality >= 4 THEN 12 ELSE 15
          IN  /\ response.predicted_price = round2(p)
              /\ response.price_range_low = round2(DecMul(p, 100 - r))
              /\ response.price_range_high = round2(DecMul(p, 100 + r))
    /\ heuristic_answer =>
          LET p == predict(features_in)[1]
          IN  /\ response.predicted_price = round2(p)
              /\ response.price_range_low = round2(DecMul(p, 88))
              /\ response.price_range_high = round2(DecMul(p, 112))

\* the trained model has priced a record of quality 2
C15_Witness ==
    /\ trained_answer
    /\ request.overall_quality = 2

\* C16: in the frame the trained branch assembles, Neighborhood_<name> is 1
\* exactly when that column is in the feature list; every other column that
\* is not assigned by name is 0; a neighborhood without a column adds no
\* column and the request is answered all the same.
C16_NeighborhoodOneHot ==
    (response # None /\ Validates(request) /\ artifacts_loaded) =>
        LET df == input_df(features_in, feature_names)
            col == "Neighborhood_" \o request.neighborhood
        IN  /\ col \in feature_names.cols => df[col] = Num(1)
            /\ col \notin feature_names.cols => col \notin DOMAIN df
            /\ \A c \in DOMAIN df \ (AssignedCols \cup {col}) :
                  c \in feature_names.cols /\ df[c] = Num(0)
            /\ response.status = 200
            /\ (col \notin feature_names.cols /\ ~scaler.raises /\ ~model.raises
                /\ AssignedCols \subseteq feature_names.cols)
               => trained_answer

\* the trained model has priced a record whose neighborhood has no column
C16_Witness ==
    /\ trained_answer
    /\ request.neighborhood = "MeadowV"
    /\ "Neighborhood_MeadowV" \notin feature_names.cols
    /\ "Neighborhood_CollgCr" \in feature_names.cols

\* C17: for a feature dict that carries every field, local_predict returns
\* the predicted_price, price_range_low, price_range_high and confidence
\* that the API's heuristic path (SimplePricePredictor.predict and the else
\* branch of predict_price) returns for the same values.
C17_LocalEqualsApiHeuristic ==
    (page # None /\ page.local_calls = 1) =>
        LET api == fallback_branch(HouseFeatures(page.features))
        IN  /\ page.result.predicted_price = api.predicted_price
            /\ page.result.price_range_low = api.price_range_low
            /\ page.result.price_range_high = api.price_range_high
            /\ page.result.confidence = api.confidence

\* a local estimate for a house of 2020, quality 3
C17_Witness ==
    /\ page # None
    /\ page.local_calls = 1
    /\ page.features.year_built = 2020
    /\ page.features.overall_quality = 3
    /\ page.result.confidence = "Low"

====
